---- MODULE Spec2Model ----
(***************************************************************************)
(* Latent-variable grid CRF (pystruct/problems/latent_crf.py) and the      *)
(* outer loop of LatentSSVM.                                               *)
(*                                                                         *)
(* A grid is flattened to its nodes 1..NNodes: every operation modelled    *)
(* here is element-wise over the nodes.  Arrays indexed from 0 in numpy    *)
(* (states, labels, entries of w) are functions over 0..k-1.               *)
(* The code is Python 2: `/` on integers is floor division (\div).         *)
(***************************************************************************)
EXTENDS Integers, Sequences, FiniteSets, TLC

\* ---------------------------------------------------------------- bounds
NNodes == 2
MaxStatesPerLabel == 2
\* the largest max_iter a LatentSSVM is constructed with
MaxIter == 2

\* ------------------------------------------------------ program constants
\* n_labels = 2 in every test of the repository
NLabels == 2
\* x_wide[other_states] = -1000 * sign(unary_params)
ClampValue == 1000

\* values of one feature score, and of one entry of w
XVals == {-1, 2}
WVals == {-1, 0, 2}
\* the per-label lists the tests construct models with
PerLabelLists == {<<1, 2>>, <<1, 4>>}

VARIABLES
    n_labels,            \* self.n_labels
    n_states_per_label,  \* self.n_states_per_label (a Python int or list)
    n_states,            \* n_states handed to the base class (int or list)
    op,                  \* the call that produced the current state
    x,                   \* argument x: x[node][label]
    y,                   \* argument y: y[node]
    w,                   \* argument w: w[0 .. n_states], the last entry
                         \* standing for the pairwise block
    h,                   \* argument h (h_true), or the oracle's answer
    h_hat,               \* argument h_hat of loss
    x_wide,              \* the unary input handed to the oracle / returned
    ret,                 \* the returned value
    stdout,              \* lines printed by the call
    after,               \* the caller's arrays x and w after the call
    fit_pc,              \* LatentSSVM.fit: the state of the outer loop
    max_iter,            \* LatentSSVM.max_iter
    iteration,           \* outer iterations completed
    H                    \* the current latent labeling H of the training set

model_vars == <<n_labels, n_states_per_label, n_states>>
fit_vars == <<fit_pc, max_iter, iteration, H>>
vars == <<n_labels, n_states_per_label, n_states, op, x, y, w, h, h_hat,
          x_wide, ret, stdout, after, fit_pc, max_iter, iteration, H>>

\* ----------------------------------------------------------- Python values
PyInt(k) == [type |-> "int", int |-> k, list |-> <<>>]
PyList(s) == [type |-> "list", int |-> 0, list |-> s]

RECURSIVE SeqRepeat(_, _)
SeqRepeat(s, k) == IF k = 0 THEN <<>> ELSE s \o SeqRepeat(s, k - 1)

\* Python's  int * value : a product for an int, k copies for a list
PyMul(k, v) ==
    IF v.type = "int" THEN PyInt(k * v.int) ELSE PyList(SeqRepeat(v.list, k))

Sign(k) == IF k > 0 THEN 1 ELSE IF k < 0 THEN -1 ELSE 0
Abs(k) == IF k < 0 THEN -k ELSE k

\* ------------------------------------------------------------ the model
Nodes == 1..NNodes
None == <<>>

\* LatentGridCRF.__init__ / LatentDirectionalGridCRF.__init__
Construct(nl, nspl) ==
    /\ n_states_per_label = nspl
    /\ n_labels = nl
    /\ n_states = PyMul(nl, nspl)

StatesPerLabelArgs ==
    {PyInt(k) : k \in 1..MaxStatesPerLabel} \cup {PyList(s) : s \in PerLabelLists}

Init ==
    /\ \E nspl \in StatesPerLabelArgs : Construct(NLabels, nspl)
    /\ op = "init"
    /\ x = None /\ y = None /\ w = None /\ h = None /\ h_hat = None
    /\ x_wide = None /\ ret = None /\ stdout = <<>> /\ after = None
    /\ fit_pc = "Init" /\ max_iter = 0 /\ iteration = 0 /\ H = None

\* The calls below index with n_states and divide by n_states_per_label:
\* they are modelled for an integer n_states_per_label.  No call changes a
\* field of the model, so every call is taken from the constructed model
\* (op = "init") and its state records the arguments and the result.
IntModel == n_states_per_label.type = "int"
spl == n_states_per_label.int
StateIds == 0..(n_states.int - 1)
LabelIds == 0..(n_labels - 1)

\* ------------------------------------------------------------ input sets
\* one entry deviating from a uniform map
Deviating(D, V) ==
    {[i \in D |-> v] : v \in V}
        \cup {[i \in D |-> IF i = k THEN a ELSE b] : k \in D, a \in V, b \in V}

XInputs ==
    LET Cells == Nodes \X LabelIds
    IN  {[n \in Nodes |-> [l \in LabelIds |-> f[<<n, l>>]]] :
            f \in Deviating(Cells, XVals)}
YInputs == [Nodes -> LabelIds]
WInputs == Deviating(0..n_states.int, WVals)
HInputs == [Nodes -> StateIds]

\* --------------------------------------------------------------- helpers
\* np.repeat(x, self.n_states_per_label, axis=-1)
np_repeat(xx) == [n \in Nodes |-> [s \in StateIds |-> xx[n][s \div spl]]]

\* self.get_unary_weights(w): the unary block of w, one weight per state
get_unary_weights(wv) == [s \in StateIds |-> wv[s]]

\* np.any(w)
np_any(wv) == \E i \in DOMAIN wv : wv[i] # 0

\* h / self.n_states_per_label
Collapse(hh) == [n \in Nodes |-> hh[n] \div spl]

\* y * self.n_states_per_label
TrivialAssignment(yy) == [n \in Nodes |-> yy[n] * spl]

\* ---------------------------------------------------------------- latent
\* np.arange(self.n_states) / self.n_states_per_label != y[:, :, np.newaxis]
other_states(yy) == [n \in Nodes |-> [s \in StateIds |-> (s \div spl) # yy[n]]]

\* x_wide after  x_wide[other_states] = (-1000 * np.sign(unary_params)
\*                                       * np.ones(x_wide.shape))[other_states]
LatentInput(xx, yy, wv) ==
    LET unary_params == get_unary_weights(wv)
        other == other_states(yy)
        wide == np_repeat(xx)
    IN  [n \in Nodes |-> [s \in StateIds |->
            IF other[n][s] THEN (-ClampValue) * Sign(unary_params[s]) * 1
            ELSE wide[n][s]]]

\* variant of LatentResult that never prints
LatentSilent(yy, wv, oracle_h) ==
    IF Collapse(oracle_h) # yy
    THEN [h |-> TrivialAssignment(yy), stdout |-> <<>>]
    ELSE [h |-> oracle_h, stdout |-> <<>>]

\* variant of LatentResult without the consistency test
LatentUnchecked(yy, wv, oracle_h) == [h |-> oracle_h, stdout |-> <<>>]

\* the part of latent after the oracle answered oracle_h
LatentResult(yy, wv, oracle_h) ==
    IF Collapse(oracle_h) # yy
    THEN IF np_any(wv)
         THEN [h |-> TrivialAssignment(yy),
               stdout |-> <<"inconsistent h and y">>]
         ELSE [h |-> TrivialAssignment(yy), stdout |-> <<>>]
    ELSE [h |-> oracle_h, stdout |-> <<>>]

\* latent(x, y, w); the oracle may answer any assignment
Latent ==
    /\ IntModel
    /\ op = "init"
    /\ \E xx \in XInputs, yy \in YInputs, wv \in WInputs :
        /\ x' = xx /\ y' = yy /\ w' = wv
        /\ x_wide' = LatentInput(xx, yy, wv)
        /\ \E oracle_h \in HInputs :
            LET r == LatentResult(yy, wv, oracle_h)
            IN  /\ h' = oracle_h
                /\ ret' = r.h
                /\ stdout' = r.stdout
    /\ op' = "latent"
    /\ UNCHANGED fit_vars
    /\ UNCHANGED <<n_labels, n_states_per_label, n_states, h_hat, after>>

NextLatent == Latent
SpecLatent == Init /\ [][NextLatent]_vars

\* the unary potential the oracle computes for state s at node n: the unary
\* input times the unary weight of s
UnaryPotential(xw, wv) ==
    [n \in Nodes |-> [s \in StateIds |-> xw[n][s] * get_unary_weights(wv)[s]]]

OracleInconsistent == \E n \in Nodes : h[n] \div spl # y[n]

\* C1: after latent(x, y, w) the returned h collapses to y at every node,
\* whatever w is and whatever assignment the oracle answered.
LatentConsistentWithY ==
    op = "latent" => \A n \in Nodes : ret[n] \div spl = y[n]

\* reached: a non-zero w, two states per label, and an oracle answer that
\* is inconsistent with y
LatentConsistentWitness ==
    /\ op = "latent" /\ spl >= 2
    /\ OracleInconsistent
    /\ \E i \in DOMAIN w : w[i] # 0
    /\ \E n \in Nodes : y[n] # 0

\* C2: every state inconsistent with y[node] gets a unary potential that is
\* at most -1000 and strictly below the potential of every consistent state
\* of that node, for every w (zero unary weights included).
InconsistentStatesClamped ==
    op = "latent" =>
        LET pot == UnaryPotential(x_wide, w)
        IN  \A n \in Nodes : \A s \in StateIds :
                (s \div spl # y[n]) =>
                    /\ pot[n][s] <= -ClampValue
                    /\ \A t \in StateIds :
                          (t \div spl = y[n]) => pot[n][s] < pot[n][t]

\* C3: a consistent oracle answer is returned unchanged; an inconsistent
\* one is replaced by y * n_states_per_label, and with a non-zero w the
\* line "inconsistent h and y" is printed.
LatentFallbackReported ==
    op = "latent" =>
        IF OracleInconsistent
        THEN /\ ret = [n \in Nodes |-> y[n] * spl]
             /\ (\E i \in DOMAIN w : w[i] # 0)
                    => stdout = <<"inconsistent h and y">>
        ELSE ret = h

\* reached: the fallback was taken under a non-zero w and was printed, and
\* the fallback differs from the oracle's answer
LatentFallbackWitness ==
    /\ op = "latent"
    /\ OracleInconsistent
    /\ \E i \in DOMAIN w : w[i] # 0
    /\ Len(stdout) = 1
    /\ ret # h

\* ------------------------------------------------------------ real numbers
\* The float arithmetic of loss_augment is modelled exactly: a number is
\*     num / den  +  big * 10^10  +  tiny * 10^-10        (den > 0)
\* so that 1e-10 and its inverse 1e10 are carried as their own units.
Num(n, d, b, t) == [num |-> n, den |-> d, big |-> b, tiny |-> t]
FromInt(k) == Num(k, 1, 0, 0)
NumAdd(a, c) ==
    Num(a.num * c.den + c.num * a.den, a.den * c.den,
        a.big + c.big, a.tiny + c.tiny)
NumScale(k, a) == Num(k * a.num, a.den, k * a.big, k * a.tiny)
NumSub(a, c) == NumAdd(a, NumScale(-1, c))
NumEq(a, c) ==
    /\ a.big = c.big /\ a.tiny = c.tiny
    /\ a.num * c.den = c.num * a.den
\* a < c, for numbers whose num/den parts are far below 10^10 and above
\* 10^-10 apart
NumLess(a, c) ==
    \/ a.big < c.big
    \/ a.big = c.big /\ a.num * c.den < c.num * a.den
    \/ a.big = c.big /\ a.num * c.den = c.num * a.den /\ a.tiny < c.tiny
\* 1. / a  for a non-zero integer or for 1e-10
NumInverse(a) ==
    IF a.num = 0 /\ a.tiny = 1 THEN Num(0, 1, 1, 0)
    ELSE Num(Sign(a.num) * a.den, Abs(a.num), 0, 0)

\* ----------------------------------------------------------- loss_augment
\* unary_params = w[:self.n_states].copy()
\* unary_params[unary_params == 0] = 1e-10
GuardedUnaryParams(wv) ==
    [s \in StateIds |-> IF wv[s] = 0 THEN Num(0, 1, 0, 1) ELSE FromInt(wv[s])]

WideNum(xx) == [n \in Nodes |-> [s \in StateIds |-> FromInt(np_repeat(xx)[n][s])]]

\* variant of loss_augment that compares h with s instead of their labels
LossAugmentRawStates(xx, hh, wv) ==
    LET unary_params == GuardedUnaryParams(wv)
        wide == WideNum(xx)
    IN  [x_wide |-> [n \in Nodes |-> [s \in StateIds |->
                        IF hh[n] # s
                        THEN NumAdd(wide[n][s], NumInverse(unary_params[s]))
                        ELSE wide[n][s]]],
         x |-> xx, w |-> wv]

\* variant of loss_augment that adds 1 instead of 1 / unary_params[s]
LossAugmentByOne(xx, hh, wv) ==
    LET wide == WideNum(xx)
    IN  [x_wide |-> [n \in Nodes |-> [s \in StateIds |->
                        IF hh[n] \div spl # s \div spl
                        THEN NumAdd(wide[n][s], FromInt(1))
                        ELSE wide[n][s]]],
         x |-> xx, w |-> wv]

\* loss_augment(x, h, w): the returned x_wide, and the caller's x and w
\* after the call (np.repeat and .copy() make new arrays)
loss_augment(xx, hh, wv) ==
    LET unary_params == GuardedUnaryParams(wv)
        wide == WideNum(xx)
    IN  [x_wide |-> [n \in Nodes |-> [s \in StateIds |->
                        IF hh[n] \div spl # s \div spl
                        THEN NumAdd(wide[n][s], NumInverse(unary_params[s]))
                        ELSE wide[n][s]]],
         x |-> xx, w |-> wv]

LossAugment ==
    /\ IntModel
    /\ op = "init"
    /\ \E xx \in XInputs, hh \in HInputs, wv \in WInputs :
        LET r == loss_augment(xx, hh, wv)
        IN  /\ x' = xx /\ h' = hh /\ w' = wv
            /\ x_wide' = r.x_wide
            /\ ret' = r.x_wide
            /\ after' = [x |-> r.x, w |-> r.w]
    /\ op' = "loss_augment"
    /\ UNCHANGED fit_vars
    /\ UNCHANGED <<n_labels, n_states_per_label, n_states, y, h_hat, stdout>>

\* ------------------------------------------------------------------- loss
RECURSIVE np_sum(_, _)
np_sum(b, k) == IF k = 0 THEN 0 ELSE (IF b[k] THEN 1 ELSE 0) + np_sum(b, k - 1)

\* variant of loss that collapses only h
LossOneSided(hh, hhat) ==
    np_sum([n \in Nodes |-> hh[n] \div spl # hhat[n]], NNodes)

\* loss(h, h_hat)
loss(hh, hhat) ==
    np_sum([n \in Nodes |-> hh[n] \div spl # hhat[n] \div spl], NNodes)

Loss ==
    /\ IntModel
    /\ op = "init"
    /\ \E hh \in HInputs, hhat \in HInputs :
        /\ h' = hh /\ h_hat' = hhat
        /\ ret' = loss(hh, hhat)
    /\ op' = "loss"
    /\ UNCHANGED fit_vars
    /\ UNCHANGED <<n_labels, n_states_per_label, n_states, x, y, w, x_wide,
                   stdout, after>>

NextLoss == LossAugment \/ Loss
SpecLoss == Init /\ [][NextLoss]_vars

\* C9: loss_augment returns the expansion of x in which exactly the states of
\* a label group other than that of h[node] are raised by 1/w[s] (1e10 for
\* w[s] = 0); x and w are left as they were passed.
LossAugmentBoostsOtherGroups ==
    op = "loss_augment" =>
        /\ \A n \in Nodes : \A s \in StateIds :
              LET base == FromInt(x[n][s \div spl])
                  boost == IF w[s] = 0 THEN Num(0, 1, 1, 0)
                           ELSE Num(Sign(w[s]), Abs(w[s]), 0, 0)
              IN  IF s \div spl # h[n] \div spl
                  THEN NumEq(ret[n][s], NumAdd(base, boost))
                  ELSE NumEq(ret[n][s], base)
        /\ after.x = x
        /\ after.w = w

\* reached: two states per label, a zero and a non-unit unary weight, and a
\* node whose h is the second sub-state of its label
LossAugmentWitness ==
    /\ op = "loss_augment" /\ spl >= 2
    /\ \E s \in StateIds : w[s] = 0
    /\ \E s \in StateIds : w[s] = 2
    /\ \E n \in Nodes : h[n] % spl = 1
    /\ \E n \in Nodes : \E s \in StateIds : ret[n][s].big = 1

\* C7: loss(h, h_hat) is the number of nodes whose collapsed labels differ;
\* it is symmetric, zero on equal maps, and zero on maps that differ only in
\* the sub-state of the same label.
LossIsCollapsedHamming ==
    op = "loss" =>
        /\ ret = Cardinality({n \in Nodes : h[n] \div spl # h_hat[n] \div spl})
        /\ loss(h_hat, h) = ret
        /\ loss(h, h) = 0
        /\ (\A n \in Nodes : h[n] \div spl = h_hat[n] \div spl) => ret = 0

\* reached: one node differs only in the sub-state, another in the label
LossWitness ==
    /\ op = "loss" /\ spl >= 2
    /\ \E n \in Nodes : h[n] # h_hat[n] /\ h[n] \div spl = h_hat[n] \div spl
    /\ \E n \in Nodes : h[n] \div spl # h_hat[n] \div spl
    /\ ret = 1

\* ------------------------------------------------ loss_augmented_inference
\* inputs of loss_augmented_inference: an x that depends on the label only,
\* and a w whose unary block is all zero or has no zero (the pairwise entry
\* is 0)
XLabelwise ==
    {[n \in Nodes |-> [l \in LabelIds |-> IF l = 0 THEN p[1] ELSE p[2]]] :
        p \in {q \in XVals \X XVals : q[1] # q[2]}}
WUnaryInputs ==
    {[i \in 0..n_states.int |-> IF i = n_states.int THEN 0 ELSE u[i]] :
        u \in {v \in Deviating(StateIds, WVals) :
                  \/ \A s \in StateIds : v[s] = 0
                  \/ \A s \in StateIds : v[s] # 0}}

\* the potentials of an augmented (real-valued) unary input
UnaryPotentialNum(xw, wv) ==
    [n \in Nodes |-> [s \in StateIds |->
        NumScale(get_unary_weights(wv)[s], xw[n][s])]]

\* loss_augmented_inference(x, h, w); the oracle may answer any assignment
LossAugmentedInference ==
    /\ IntModel
    /\ op = "init"
    /\ \E xx \in XLabelwise, hh \in HInputs, wv \in WUnaryInputs :
        /\ x' = xx /\ h' = hh /\ w' = wv
        /\ x_wide' = loss_augment(xx, hh, wv).x_wide
        /\ \E oracle_h \in HInputs : ret' = oracle_h
    /\ op' = "loss_augmented_inference"
    /\ UNCHANGED fit_vars
    /\ UNCHANGED <<n_labels, n_states_per_label, n_states, y, h_hat, stdout,
                   after>>

NextInference == LossAugmentedInference
SpecInference == Init /\ [][NextInference]_vars

RECURSIVE NumSum(_, _)
NumSum(f, k) == IF k = 0 THEN FromInt(0) ELSE NumAdd(f[k], NumSum(f, k - 1))

\* C4: with the all-zero w, at every node each state of another label than
\* h_true's has a strictly higher potential than each state of its label.
ZeroWeightAugmentationSeparates ==
    (op = "loss_augmented_inference" /\ \A i \in DOMAIN w : w[i] = 0) =>
        LET pot == UnaryPotentialNum(x_wide, w)
        IN  \A n \in Nodes : \A s \in StateIds : \A t \in StateIds :
                (s \div spl # h[n] \div spl /\ t \div spl = h[n] \div spl)
                    => NumLess(pot[n][t], pot[n][s])

\* C10: with all unary weights non-zero, the unary potential of h_hat on
\* the augmented input exceeds that on the plain expansion by loss(h, h_hat).
AugmentedPotentialAddsLoss ==
    (op = "loss_augmented_inference" /\ \A s \in StateIds : w[s] # 0) =>
        LET gain == [n \in Nodes |->
                        NumScale(w[ret[n]],
                                 NumSub(x_wide[n][ret[n]],
                                        FromInt(x[n][ret[n] \div spl])))]
        IN  NumEq(NumSum(gain, NNodes), FromInt(loss(h, ret)))

\* reached: weights of both signs and different magnitudes, and an h_hat
\* that differs from h in the label at every node
AugmentedPotentialWitness ==
    /\ op = "loss_augmented_inference" /\ spl >= 2
    /\ \A s \in StateIds : w[s] # 0
    /\ \E s \in StateIds : w[s] = -1
    /\ \E s \in StateIds : w[s] = 2
    /\ \E n \in Nodes : w[ret[n]] = 2
    /\ loss(h, ret) = NNodes

\* ------------------------------------------------------------ init_latent
\* kmeans_init works on Y.ravel() and H.ravel(): here Nodes are the cells of
\* the raveled Y.  km[label][cell] is the cluster km.fit_predict assigns to
\* a cell of that label's population.
\* variant of KMeansLoop that adds label instead of label * n_states_per_label
RECURSIVE KMeansLoopNoOffset(_, _, _, _, _)
KMeansLoopNoOffset(Hr, label, nl, yy, km) ==
    IF label = nl THEN Hr
    ELSE KMeansLoopNoOffset(
             [c \in DOMAIN Hr |->
                 IF yy[c] = label THEN km[label][c] + label ELSE Hr[c]],
             label + 1, nl, yy, km)

\* for label in np.arange(n_labels):
\*     indicator = Y.ravel() == label
\*     H.ravel()[indicator] = states + label * n_states_per_label
RECURSIVE KMeansLoop(_, _, _, _, _)
KMeansLoop(Hr, label, nl, yy, km) ==
    IF label = nl THEN Hr
    ELSE KMeansLoop(
             [c \in DOMAIN Hr |->
                 IF yy[c] = label THEN km[label][c] + label * spl ELSE Hr[c]],
             label + 1, nl, yy, km)

\* kmeans_init(X, Y, edges, n_states_per_label): n_labels is the number of
\* feature columns of X[0]; H starts as np.zeros_like(Y)
kmeans_init(xx, yy, km) ==
    LET nl == Cardinality(DOMAIN xx[1])
        H0 == [c \in DOMAIN yy |-> 0]
    IN  KMeansLoop(H0, 0, nl, yy, km)

\* init_latent(X, Y)
InitLatent ==
    /\ IntModel
    /\ op = "init"
    /\ \E xx \in XInputs, yy \in YInputs,
          km \in [LabelIds -> [Nodes -> 0..(spl - 1)]] :
        /\ x' = xx /\ y' = yy
        /\ ret' = kmeans_init(xx, yy, km)
    /\ op' = "init_latent"
    /\ UNCHANGED fit_vars
    /\ UNCHANGED <<n_labels, n_states_per_label, n_states, w, h, h_hat,
                   x_wide, stdout, after>>

NextInit == InitLatent
SpecInit == Init /\ [][NextInit]_vars

\* C5: init_latent returns H of the shape of Y with H // n_states_per_label
\* == Y and 0 <= H < n_labels * n_states_per_label at every cell.
InitLatentConsistent ==
    op = "init_latent" =>
        /\ DOMAIN ret = DOMAIN y
        /\ \A c \in DOMAIN y :
              /\ ret[c] \div spl = y[c]
              /\ 0 <= ret[c] /\ ret[c] < n_labels * spl

\* reached: both labels present and a cell of label 1 in its second cluster
InitLatentWitness ==
    /\ op = "init_latent" /\ spl >= 2
    /\ \E c \in DOMAIN y : y[c] = 0
    /\ \E c \in DOMAIN y : y[c] = 1 /\ ret[c] = spl + 1

RECURSIVE SeqSum(_)
SeqSum(q) == IF q = <<>> THEN 0 ELSE Head(q) + SeqSum(Tail(q))

\* C6: a model constructed with a per-label list has an integer n_states
\* equal to the total number of hidden states over all labels.
PerLabelListGivesTotalStates ==
    n_states_per_label.type = "list" =>
        /\ n_states.type = "int"
        /\ n_states.int = SeqSum(n_states_per_label.list)

\* ---------------------------------------------------------- LatentSSVM.fit
\* The outer loop Init -> {Fit-Base, Infer-Latent} -> Converged |
\* MaxIterReached, on a training set of one example (x, y).  The loop
\* reads X only through init_latent and the oracle, so the state keeps Y,
\* H and w.
Terminal == {"Converged", "MaxIterReached"}

\* variant of LoopContinues without the budget
LoopUnbounded(it, mi) == TRUE

\* another outer iteration is started only within the budget
LoopContinues(it, mi) == it < mi

\* the w a base learner may leave: one value in every entry
FitWeights == {[i \in 0..n_states.int |-> v] : v \in WVals}

\* fit(X, Y, H_init): H is H_init when given (the caller's, consistent with
\* Y), else init_latent(X, Y)
FitStart ==
    /\ IntModel
    /\ fit_pc = "Init"
    /\ \E mi \in 1..MaxIter, xx \in XLabelwise, yy \in YInputs :
        /\ max_iter' = mi /\ y' = yy
        /\ \/ \E H_init \in {g \in HInputs : Collapse(g) = yy} : H' = H_init
           \/ \E km \in [LabelIds -> [Nodes -> 0..(spl - 1)]] :
                 H' = kmeans_init(xx, yy, km)
        /\ fit_pc' = IF LoopContinues(0, mi) THEN "FitBase"
                      ELSE "MaxIterReached"
    /\ iteration' = 0
    /\ op' = "fit"
    /\ UNCHANGED <<model_vars, x, w, h, h_hat, x_wide, ret, stdout, after>>

\* (1) a fresh base learner is fitted on (X, H); it leaves some w
FitBase ==
    /\ fit_pc = "FitBase"
    /\ \E wv \in FitWeights : w' = wv
    /\ fit_pc' = "InferLatent"
    /\ UNCHANGED <<model_vars, op, x, y, h, h_hat, x_wide, ret, stdout, after,
                   max_iter, iteration, H>>

\* (2) h = model.latent(x, y, w); (3) stop when H is unchanged, or when the
\* objective tolerance or break_on_bad says so, or when the budget is used
InferLatent ==
    /\ fit_pc = "InferLatent"
    /\ \E oracle_h \in HInputs, stop \in BOOLEAN :
        LET r == LatentResult(y, w, oracle_h)
        IN  /\ H' = r.h
            /\ stdout' = r.stdout
            /\ fit_pc' = IF r.h = H \/ stop THEN "Converged"
                          ELSE IF LoopContinues(iteration + 1, max_iter)
                               THEN "FitBase"
                               ELSE "MaxIterReached"
    /\ iteration' = iteration + 1
    /\ UNCHANGED <<model_vars, op, x, y, w, h, h_hat, x_wide, ret, after,
                   max_iter>>

NextFit == FitStart \/ FitBase \/ InferLatent
InitFit == Init /\ IntModel
\* fit runs to its end once called: every step of the loop is taken
SpecFit == InitFit /\ [][NextFit]_vars /\ WF_vars(NextFit)

Next == NextLatent \/ NextLoss \/ NextInference \/ NextInit \/ NextFit
Spec == Init /\ [][Next]_vars

====
